---- MODULE Spec2Model ----
(***************************************************************************)
(* Model of app.py: the text normalizer (clean_academic_text), the PDF     *)
(* text extractor (extract_text_from_academic_pdf), the token chunker      *)
(* (split_text_by_tokens) and the processing request that main() runs.     *)
(*                                                                         *)
(* A text is a sequence of one-character strings.  A token sequence is a   *)
(* sequence of integers, the value of tiktoken's encoding.encode(text).    *)
(***************************************************************************)
EXTENDS Integers, Sequences, FiniteSets, TLC

\* ------------------------------------------------------------------ bounds
MaxTextLen == 5      \* longest text given to the normalizer on its own
MaxDocChars == 3     \* most characters of raw text in a PDF, all pages together
MaxPages == 2        \* most pages of a PDF document
MaxLen == 4          \* longest token sequence given to the chunker on its own
MaxStep == 3         \* largest |max_tokens| given to the chunker on its own
MaxDocTokens == 1    \* longest token sequence of an extracted document

\* ------------------------------------------------------------- characters
\* [a-z] of the regular expressions.
LowerChars ==
  {"a", "b", "c", "d", "e", "f", "g", "h", "i", "j", "k", "l", "m",
   "n", "o", "p", "q", "r", "s", "t", "u", "v", "w", "x", "y", "z"}

\* The characters texts are enumerated over: a lowercase letter, a word
\* character that is not lowercase, a space, a newline and a hyphen.
Alphabet == {"a", "A", " ", "\n", "-"}

IsLower(c) == c \in LowerChars
\* \w: letters, digits, underscore ("A" stands for the ones outside [a-z]).
IsWord(c) == c \in LowerChars \cup {"A"}
\* \s, and the characters str.strip() removes.
IsSpace(c) == c \in {" ", "\n"}
IsNewline(c) == c = "\n"

\* All texts over Alphabet of length at most n.
TextsUpTo(n) == UNION {[1..k -> Alphabet] : k \in 0..n}

\* t[i..j-1] (Python's t[i-1:j-1]).
Slice(t, i, j) == SubSeq(t, i, j - 1)

\* Every character of t[i..j-1] is in the class.
AllLower(t, i, j) == \A q \in i..(j - 1) : IsLower(t[q])
AllWord(t, i, j) == \A q \in i..(j - 1) : IsWord(t[q])
AllSpace(t, i, j) == \A q \in i..(j - 1) : IsSpace(t[q])
AllNewline(t, i, j) == \A q \in i..(j - 1) : IsNewline(t[q])

\* \b at position p: exactly one of t[p-1], t[p] is a word character.
IsBoundary(t, p) ==
  LET W(q) == q \in 1..Len(t) /\ IsWord(t[q])
  IN W(p - 1) # W(p)

\* The largest tuple of a non-empty set of integer tuples of equal length, in
\* lexicographic order: the match a backtracking matcher with greedy
\* quantifiers finds first.
RECURSIVE LexLeq(_, _)
LexLeq(a, b) ==
  IF a = <<>> THEN TRUE
  ELSE IF Head(a) # Head(b) THEN Head(a) < Head(b)
  ELSE LexLeq(Tail(a), Tail(b))

Greediest(S) == CHOOSE m \in S : \A o \in S : LexLeq(o, m)

\* ------------------------------------------- clean_academic_text, step 1
\* r'\n{3,}' at position i: the end of the match, or 0.
NewlineRunMatch(t, i) ==
  LET n == Len(t)
      S == {<<e>> : e \in {e \in (i + 3)..(n + 1) : AllNewline(t, i, e)}}
  IN IF S = {} THEN 0 ELSE Greediest(S)[1]

RECURSIVE CollapseFrom(_, _)
CollapseFrom(t, i) ==
  IF i > Len(t) THEN <<>>
  ELSE LET e == NewlineRunMatch(t, i)
       IN IF e # 0 THEN <<"\n", "\n">> \o CollapseFrom(t, e)
          ELSE <<t[i]>> \o CollapseFrom(t, i + 1)

\* re.sub(r'\n{3,}', '\n\n', text)
CollapseNewlines(t) == CollapseFrom(t, 1)

\* ------------------------------------------- clean_academic_text, step 2
\* The whitespace class between the two fragments of the word-merge pattern.
MergeGap(t, j, k) == k - j >= 1 /\ AllSpace(t, j, k)

\* r'(\b[a-z]{2,})\s+([a-z]{2,}\b)' at position i: <<j, k, e>> with group 1 =
\* t[i..j-1], the gap t[j..k-1], group 2 = t[k..e-1]; <<>> when no match.
WordMergeMatch(t, i) ==
  LET n == Len(t)
      S == UNION {UNION {{<<j, k, e>> :
                 e \in {e \in (k + 2)..(n + 1) :
                          AllLower(t, k, e) /\ IsBoundary(t, e)}} :
               k \in {k \in (j + 1)..(n + 1) : MergeGap(t, j, k)}} :
             j \in {j \in (i + 2)..(n + 1) : AllLower(t, i, j)}}
  IN IF ~IsBoundary(t, i) \/ S = {} THEN <<>> ELSE Greediest(S)

RECURSIVE MergeFrom(_, _)
MergeFrom(t, i) ==
  IF i > Len(t) THEN <<>>
  ELSE LET m == WordMergeMatch(t, i)
       IN IF m # <<>>
          THEN Slice(t, i, m[1]) \o Slice(t, m[2], m[3]) \o MergeFrom(t, m[3])
          ELSE <<t[i]>> \o MergeFrom(t, i + 1)

\* re.sub(r'(\b[a-z]{2,})\s+([a-z]{2,}\b)', r'\1\2', text)
MergeWords(t) == MergeFrom(t, 1)

\* ------------------------------------------- clean_academic_text, step 3
\* r'(\w+)-\s*\n\s*(\w+)' at position i: <<j, k, l, e>> with group 1 =
\* t[i..j-1], the hyphen t[j], \s* = t[j+1..k-1], the newline t[k],
\* \s* = t[k+1..l-1], group 2 = t[l..e-1]; <<>> when no match.
HyphenMatch(t, i) ==
  LET n == Len(t)
      S == UNION {UNION {UNION {{<<j, k, l, e>> :
                   e \in {e \in (l + 1)..(n + 1) : AllWord(t, l, e)}} :
                 l \in {l \in (k + 1)..(n + 1) : AllSpace(t, k + 1, l)}} :
               k \in {k \in (j + 1)..n :
                        AllSpace(t, j + 1, k) /\ t[k] = "\n"}} :
             j \in {j \in (i + 1)..n : AllWord(t, i, j) /\ t[j] = "-"}}
  IN IF S = {} THEN <<>> ELSE Greediest(S)

RECURSIVE DehyphenateFrom(_, _)
DehyphenateFrom(t, i) ==
  IF i > Len(t) THEN <<>>
  ELSE LET m == HyphenMatch(t, i)
       IN IF m # <<>>
          THEN Slice(t, i, m[1]) \o Slice(t, m[3], m[4])
                 \o DehyphenateFrom(t, m[4])
          ELSE <<t[i]>> \o DehyphenateFrom(t, i + 1)

\* re.sub(r'(\w+)-\s*\n\s*(\w+)', r'\1\2', text)
Dehyphenate(t) == DehyphenateFrom(t, 1)

\* --------------------------------------- clean_academic_text, steps 4, 5
\* text.split('\n'): the segments between newlines, empty ones included.
RECURSIVE SplitLinesFrom(_, _, _)
SplitLinesFrom(t, i, cur) ==
  IF i > Len(t) THEN <<cur>>
  ELSE IF t[i] = "\n" THEN <<cur>> \o SplitLinesFrom(t, i + 1, <<>>)
  ELSE SplitLinesFrom(t, i + 1, Append(cur, t[i]))

SplitLines(t) == SplitLinesFrom(t, 1, <<>>)

\* str.lstrip() and str.rstrip().
RECURSIVE LStrip(_)
LStrip(s) == IF s # <<>> /\ IsSpace(Head(s)) THEN LStrip(Tail(s)) ELSE s

RECURSIVE RStrip(_)
RStrip(s) ==
  IF s # <<>> /\ IsSpace(s[Len(s)]) THEN RStrip(SubSeq(s, 1, Len(s) - 1)) ELSE s

\* A mutant of Strip: only the leading whitespace is removed.
StripLeadingOnly(s) == LStrip(s)

\* str.strip()
Strip(s) == RStrip(LStrip(s))

\* [line.strip() for line in text.split('\n') if line.strip()]
RECURSIVE StrippedLines(_)
StrippedLines(ls) ==
  IF ls = <<>> THEN <<>>
  ELSE IF Strip(Head(ls)) # <<>>
       THEN <<Strip(Head(ls))>> \o StrippedLines(Tail(ls))
       ELSE StrippedLines(Tail(ls))

\* '\n\n'.join(lines)
RECURSIVE JoinLines(_)
JoinLines(ls) ==
  IF ls = <<>> THEN <<>>
  ELSE IF Len(ls) = 1 THEN Head(ls)
  ELSE Head(ls) \o <<"\n", "\n">> \o JoinLines(Tail(ls))

\* clean_academic_text(text)
clean_academic_text(t) ==
  JoinLines(StrippedLines(SplitLines(Dehyphenate(MergeWords(CollapseNewlines(t))))))

\* ------------------------------------------------------------------ state
VARIABLES
  \* two successive calls of clean_academic_text
  n_pc,            \* "off", "input", "once", "twice"
  n_text,          \* the argument of the first call
  n_collapsed,     \* text after line 113 of the first call
  n_merged,        \* text after line 117 of the first call
  n_once,          \* the value the first call returns
  n_twice,         \* the value of the call on n_once
  \* one call of split_text_by_tokens
  s_pc,            \* "off", "start", "loop", "returned", "raised"
  encoded,         \* encoding.encode(text) for the text of the call
  encoding_name,
  max_tokens,
  tokens,
  i,               \* the loop variable of line 147
  windows,         \* chunk_tokens of every chunk appended, in order
  s_exc,           \* the exception the call raised, or "none"
  \* one processing request of main()
  pc,
  num_pages,       \* len(pdf_document)
  page_num,
  remaining,       \* raw characters the document's later pages may still hold
  text,            \* the cleaned text of the page last extracted
  full_text,
  extracted_text,
  exc,             \* the exception caught at line 100 or line 363, or "none"
  errors,          \* the messages shown with st.error
  token_count      \* -1 before line 236 has run

n_vars == <<n_pc, n_text, n_collapsed, n_merged, n_once, n_twice>>
s_vars == <<s_pc, tokens, i, windows, s_exc>>
a_vars == <<encoded, encoding_name, max_tokens>>
m_vars == <<pc, num_pages, page_num, remaining, text, full_text,
            extracted_text, exc, errors, token_count>>
vars == <<n_vars, s_vars, a_vars, m_vars>>

\* ------------------------------------------------------------- constants
\* The options of the "Token Encoding" selectbox: the names tiktoken knows.
SupportedEncodings == {"cl100k_base", "p50k_base", "r50k_base"}
\* The names a caller can pass: encoding_name is a plain string parameter.
EncodingNames == SupportedEncodings \cup {"unknown"}

min_value == 1024
max_value == 32768
\* The values of the "Max Tokens per Chunk" number input that are modelled.
SidebarMaxTokens == {min_value, max_value}

TokenIds == {1, 2}
TokenSeqs(lo, hi) == UNION {[1..k -> TokenIds] : k \in lo..hi}

ErrExtract == "Error extracting text from PDF"
ErrNoText == "No text could be extracted. This might be a scanned/image-based PDF."
ErrProcessing == "Error processing document"

\* "ran dom access\n\n\n\nmemory" and "multi-\nword"
ScenarioC ==
  <<"r", "a", "n", " ", "d", "o", "m", " ", "a", "c", "c", "e", "s", "s",
    "\n", "\n", "\n", "\n", "m", "e", "m", "o", "r", "y">>
ScenarioD == <<"m", "u", "l", "t", "i", "-", "\n", "w", "o", "r", "d">>

NormalizerInputs == TextsUpTo(MaxTextLen) \cup {ScenarioC, ScenarioD}
PageTexts == TextsUpTo(MaxDocChars)

NOff ==
  /\ n_pc = "off" /\ n_text = <<>> /\ n_collapsed = <<>> /\ n_merged = <<>>
  /\ n_once = <<>> /\ n_twice = <<>>
SOff ==
  /\ s_pc = "off" /\ tokens = <<>> /\ i = 0 /\ windows = <<>> /\ s_exc = "none"
MOff ==
  /\ pc = "off" /\ num_pages = 0 /\ page_num = 0 /\ remaining = 0
  /\ text = <<>> /\ full_text = <<>> /\ extracted_text = <<>>
  /\ exc = "none" /\ errors = {} /\ token_count = -1

\* ---------------------------------------------------- the normalizer run
InitClean ==
  /\ n_pc = "input" /\ n_text \in NormalizerInputs
  /\ n_collapsed = <<>> /\ n_merged = <<>> /\ n_once = <<>> /\ n_twice = <<>>
  /\ SOff /\ MOff
  /\ encoded = <<>> /\ encoding_name = "cl100k_base" /\ max_tokens = 8192

\* clean_academic_text(n_text)
Clean ==
  /\ n_pc = "input"
  /\ \E c \in {CollapseNewlines(n_text)} : \E m \in {MergeWords(c)} :
       /\ n_collapsed' = c
       /\ n_merged' = m
       /\ n_once' = JoinLines(StrippedLines(SplitLines(Dehyphenate(m))))
  /\ n_pc' = "once"
  /\ UNCHANGED <<n_text, n_twice, s_vars, a_vars, m_vars>>

\* clean_academic_text(n_once)
CleanAgain ==
  /\ n_pc = "once"
  /\ n_twice' = clean_academic_text(n_once)
  /\ n_pc' = "twice"
  /\ UNCHANGED <<n_text, n_collapsed, n_merged, n_once, s_vars, a_vars, m_vars>>

NextClean == Clean \/ CleanAgain
SpecClean == InitClean /\ [][NextClean]_vars

\* ------------------------------------------------ split_text_by_tokens
Min(a, b) == IF a <= b THEN a ELSE b

\* t[a:b] of Python for 0 <= a and 0 <= b: the slice is clamped to the list.
PySlice(t, a, b) == SubSeq(t, a + 1, Min(b, Len(t)))

\* Mutants of Window: a slice one token short, and one token long.
WindowShort(t, start, size) == PySlice(t, start, start + size - 1)
WindowLong(t, start, size) == PySlice(t, start, start + size + 1)

\* tokens[i:i + max_tokens]
Window(t, start, size) == PySlice(t, start, start + size)

\* A mutant of RangeHasNext: the stop value is included.
RangeHasNextInclusive(cur, stop, step) ==
  IF step > 0 THEN cur <= stop ELSE cur >= stop

\* range(0, stop, step) yields cur: an ascending range ends before stop, a
\* descending one (step < 0) ends after it.
RangeHasNext(cur, stop, step) == IF step > 0 THEN cur < stop ELSE cur > stop

InitSplit ==
  /\ s_pc = "start" /\ tokens = <<>> /\ i = 0 /\ windows = <<>> /\ s_exc = "none"
  /\ encoded \in TokenSeqs(0, MaxLen)
  /\ encoding_name \in EncodingNames
  /\ max_tokens \in (0 - MaxStep)..MaxStep
  /\ NOff /\ MOff

\* Lines 142-147 up to the evaluation of range(): tiktoken.get_encoding raises
\* ValueError for a name it does not know, range() raises ValueError for step 0.
SplitStart ==
  /\ s_pc = "start"
  /\ IF encoding_name \notin SupportedEncodings
     THEN /\ s_pc' = "raised" /\ s_exc' = "Unknown encoding"
          /\ UNCHANGED <<tokens, i, windows>>
     ELSE IF max_tokens = 0
     THEN /\ s_pc' = "raised" /\ s_exc' = "range() arg 3 must not be zero"
          /\ tokens' = encoded /\ windows' = <<>>
          /\ UNCHANGED i
     ELSE /\ s_pc' = "loop" /\ tokens' = encoded /\ windows' = <<>> /\ i' = 0
          /\ UNCHANGED s_exc
  /\ UNCHANGED <<n_vars, a_vars, m_vars>>

\* One iteration of the loop of lines 147-150.
SplitLoop ==
  /\ s_pc = "loop"
  /\ RangeHasNext(i, Len(tokens), max_tokens)
  /\ windows' = Append(windows, Window(tokens, i, max_tokens))
  /\ i' = i + max_tokens
  /\ UNCHANGED <<s_pc, tokens, s_exc, n_vars, a_vars, m_vars>>

\* The range is exhausted: return chunks (line 152).
SplitReturn ==
  /\ s_pc = "loop"
  /\ ~RangeHasNext(i, Len(tokens), max_tokens)
  /\ s_pc' = "returned"
  /\ UNCHANGED <<tokens, i, windows, s_exc, n_vars, a_vars, m_vars>>

NextSplit == SplitStart \/ SplitLoop \/ SplitReturn
SpecSplit == InitSplit /\ [][NextSplit]_vars

\* --------------------------- extract_text_from_academic_pdf and main()
\* A mutant of ExceptReturn: the handler returns the pages extracted so far.
ExceptReturnPartial(full) == Strip(full)

\* return "" of the except clause (line 102).
ExceptReturn(full) == <<>>

\* The sidebar values are read (lines 174-188) and a file is uploaded (line
\* 215).  The selectbox offers SupportedEncodings; the request is also run
\* with a name outside them, which count_tokens and split_text_by_tokens
\* take as a plain string, to see where the pipeline rejects it.
InitMain ==
  /\ pc = "uploaded"
  /\ encoding_name \in EncodingNames
  /\ max_tokens \in SidebarMaxTokens
  /\ encoded = <<>>
  /\ num_pages = 0 /\ page_num = 0 /\ remaining = MaxDocChars
  /\ text = <<>> /\ full_text = <<>> /\ extracted_text = <<>>
  /\ exc = "none" /\ errors = {} /\ token_count = -1
  /\ NOff /\ SOff

\* fitz.open succeeds (lines 81-82).
OpenPdf ==
  /\ pc = "uploaded"
  /\ num_pages' \in 1..MaxPages
  /\ full_text' = <<>> /\ page_num' = 0
  /\ pc' = "pages"
  /\ UNCHANGED <<remaining, text, extracted_text, exc, errors, token_count,
                 n_vars, s_vars, a_vars>>

\* fitz.open raises (line 81).
OpenPdfFails ==
  /\ pc = "uploaded"
  /\ exc' = "open failed"
  /\ pc' = "except"
  /\ UNCHANGED <<num_pages, page_num, remaining, text, full_text,
                 extracted_text, errors, token_count, n_vars, s_vars, a_vars>>

\* One iteration of the page loop (lines 85-95): get_text returns the page's
\* raw text, which is cleaned and appended when it is not blank.
GetText ==
  /\ pc = "pages" /\ page_num < num_pages
  /\ \E raw \in {t \in PageTexts : Len(t) <= remaining} :
       \E c \in {clean_academic_text(raw)} :
         /\ text' = c
         /\ full_text' = IF Strip(c) # <<>>
                         THEN full_text \o c \o <<"\n", "\n">>
                         ELSE full_text
         /\ remaining' = remaining - Len(raw)
  /\ page_num' = page_num + 1
  /\ UNCHANGED <<pc, num_pages, extracted_text, exc, errors, token_count,
                 n_vars, s_vars, a_vars>>

\* Loading the page or get_text raises (lines 86-89).
GetTextFails ==
  /\ pc = "pages" /\ page_num < num_pages
  /\ exc' = "page failed"
  /\ pc' = "except"
  /\ UNCHANGED <<num_pages, page_num, remaining, text, full_text,
                 extracted_text, errors, token_count, n_vars, s_vars, a_vars>>

\* The loop is over: close and return full_text.strip() (lines 97-98).  The
\* locals text and full_text end with the call.
ExtractReturn ==
  /\ pc = "pages" /\ page_num = num_pages
  /\ extracted_text' = Strip(full_text)
  /\ text' = <<>> /\ full_text' = <<>> /\ remaining' = 0
  /\ pc' = "extracted"
  /\ UNCHANGED <<num_pages, page_num, exc, errors, token_count,
                 n_vars, s_vars, a_vars>>

\* The except clause of the extractor (lines 100-102); the locals end with
\* the call.
ExtractExcept ==
  /\ pc = "except"
  /\ errors' = errors \cup {ErrExtract}
  /\ extracted_text' = ExceptReturn(full_text)
  /\ text' = <<>> /\ full_text' = <<>> /\ remaining' = 0
  /\ pc' = "extracted"
  /\ UNCHANGED <<num_pages, page_num, exc, token_count, n_vars, s_vars, a_vars>>

\* if not extracted_text: st.error(...); st.stop() (lines 230-232).
CheckExtracted ==
  /\ pc = "extracted"
  /\ IF extracted_text = <<>>
     THEN /\ errors' = errors \cup {ErrNoText}
          /\ pc' = "stopped"
     ELSE /\ pc' = "count"
          /\ UNCHANGED errors
  /\ UNCHANGED <<num_pages, page_num, remaining, text, full_text,
                 extracted_text, exc, token_count, n_vars, s_vars, a_vars>>

\* token_count = count_tokens(extracted_text, encoding_name) (line 236):
\* get_encoding raises for an unknown name, and the except clause of main
\* (lines 363-365) reports it; otherwise the text is encoded and counted.
\* The encoder is tiktoken's: a non-empty text has a non-empty encoding.
CountTokens ==
  /\ pc = "count"
  /\ IF encoding_name \notin SupportedEncodings
     THEN /\ exc' = "Unknown encoding"
          /\ errors' = errors \cup {ErrProcessing}
          /\ pc' = "failed"
          /\ UNCHANGED <<encoded, token_count>>
     ELSE /\ encoded' \in TokenSeqs(1, MaxDocTokens)
          /\ token_count' = Len(encoded')
          /\ pc' = "split"
          /\ UNCHANGED <<exc, errors>>
  /\ UNCHANGED <<num_pages, page_num, remaining, text, full_text,
                 extracted_text, encoding_name, max_tokens, n_vars, s_vars>>

\* chunks = split_text_by_tokens(extracted_text, max_tokens, encoding_name)
\* is called (line 252).
CallSplit ==
  /\ pc = "split" /\ s_pc = "off"
  /\ s_pc' = "start"
  /\ pc' = "splitting"
  /\ UNCHANGED <<tokens, i, windows, s_exc, num_pages, page_num, remaining,
                 text, full_text, extracted_text, exc, errors, token_count,
                 n_vars, a_vars>>

\* The call returns and the chunks are shown (lines 255-361), or it raised
\* and the except clause of main reports it (lines 363-365).
SplitDone ==
  /\ pc = "splitting" /\ s_pc \in {"returned", "raised"}
  /\ IF s_pc = "returned"
     THEN /\ pc' = "done"
          /\ UNCHANGED <<exc, errors>>
     ELSE /\ exc' = s_exc
          /\ errors' = errors \cup {ErrProcessing}
          /\ pc' = "failed"
  /\ UNCHANGED <<num_pages, page_num, remaining, text, full_text,
                 extracted_text, token_count, n_vars, s_vars, a_vars>>

NextMain ==
  \/ OpenPdf \/ OpenPdfFails \/ GetText \/ GetTextFails \/ ExtractReturn
  \/ ExtractExcept \/ CheckExtracted \/ CountTokens \/ CallSplit
  \/ SplitStart \/ SplitLoop \/ SplitReturn \/ SplitDone
SpecMain == InitMain /\ [][NextMain]_vars

\* Every producer of normalized text: a run of the normalizer on its own, or
\* a processing request.
InitText == InitClean \/ InitMain
NextText == NextClean \/ NextMain
SpecText == InitText /\ [][NextText]_vars

\* ================================================================ claims
RECURSIVE Flatten(_)
Flatten(ws) == IF ws = <<>> THEN <<>> ELSE Head(ws) \o Flatten(Tail(ws))

CeilDiv(a, b) == (a + b - 1) \div b

SplitRan == s_pc \in {"loop", "returned"}

\* C1: for max_tokens >= 1, window k of split_text_by_tokens is
\* tokens[k*max_tokens : min((k+1)*max_tokens, T)] (k from 0); the windows
\* taken so far concatenate to the tokens before i, and the windows of the
\* returned list concatenate to the whole token sequence.
C1_ChunkPartition ==
  (SplitRan /\ max_tokens >= 1) =>
    /\ \A k \in 1..Len(windows) :
         windows[k] = SubSeq(tokens, (k - 1) * max_tokens + 1,
                             Min(k * max_tokens, Len(tokens)))
    /\ Flatten(windows) = SubSeq(tokens, 1, Min(i, Len(tokens)))
    /\ (s_pc = "returned" => Flatten(windows) = tokens)

C1_Witness ==
  /\ s_pc = "returned" /\ max_tokens = 2 /\ Len(windows) = 2
  /\ tokens = <<1, 2, 2>>

\* C2: for max_tokens >= 1, every window holds at most max_tokens tokens and
\* every window except the last holds exactly max_tokens.
C2_SizeBound ==
  (SplitRan /\ max_tokens >= 1) =>
    \A k \in 1..Len(windows) :
      /\ Len(windows[k]) <= max_tokens
      /\ (k < Len(windows) => Len(windows[k]) = max_tokens)

C2_Witness ==
  /\ s_pc = "returned" /\ max_tokens >= 2 /\ Len(windows) >= 2
  /\ Len(windows[Len(windows)]) < max_tokens

\* C3: for max_tokens = M >= 1 and T tokens the returned list has ceil(T / M)
\* chunks: none for T = 0, and the whole sequence as one chunk for 1 <= T <= M.
C3_ChunkCount ==
  (s_pc = "returned" /\ max_tokens >= 1) =>
    /\ Len(windows) = CeilDiv(Len(tokens), max_tokens)
    /\ (tokens = <<>> => windows = <<>>)
    /\ (Len(tokens) \in 1..max_tokens => windows = <<tokens>>)

C3_Witness ==
  /\ s_pc = "returned" /\ max_tokens >= 1
  /\ Len(tokens) > max_tokens /\ Len(tokens) % max_tokens # 0
  /\ Len(windows) = (Len(tokens) \div max_tokens) + 1

\* C10: a call of split_text_by_tokens with max_tokens < 1 ends in an error
\* and never returns a chunk list.
C10_InvalidConfigRejected ==
  (max_tokens < 1 /\ s_pc \notin {"off", "start", "loop"}) => s_pc = "raised"

\* C4: clean_academic_text(clean_academic_text(t)) = clean_academic_text(t).
C4_IdempotentNormalization == n_pc = "twice" => n_twice = n_once

\* The pattern of the word-merge rule as C5 states it: one space between the
\* two fragments.
SingleSpaceGap(t, j, k) == k - j = 1 /\ t[j] = " "

\* C5: two fragments are joined only when a single space separates them and
\* both are lowercase alphabetic with at least 2 characters; every fragment
\* the rule joins is followed by exactly one space.  "ran dom
\* access\n\n\n\nmemory" normalizes to "random access\n\nmemory".
C5_WordMergeRule ==
  n_pc \in {"once", "twice"} =>
    /\ \A p \in 1..Len(n_collapsed) :
         LET m == WordMergeMatch(n_collapsed, p)
         IN m # <<>> => SingleSpaceGap(n_collapsed, m[1], m[2])
    /\ (n_text = ScenarioC =>
          n_once = <<"r", "a", "n", "d", "o", "m", " ", "a", "c", "c", "e",
                     "s", "s", "\n", "\n", "m", "e", "m", "o", "r", "y">>)

\* The lines of a text: the segments between newlines; the empty text has none.
LinesOf(t) == IF t = <<>> THEN <<>> ELSE SplitLines(t)

NoTripleNewline(t) ==
  \A p \in 1..(Len(t) - 2) : ~(t[p] = "\n" /\ t[p + 1] = "\n" /\ t[p + 2] = "\n")

Trimmed(line) == line = <<>> \/ (~IsSpace(line[1]) /\ ~IsSpace(line[Len(line)]))

\* The texts the normalizer and the extractor have produced: the outputs of
\* the two calls of a normalizer run, the cleaned text of a request's last
\* page and the text its extractor returned.
ProducedTexts == {n_once, n_twice, text, extracted_text}

\* C6 as stated: the output of clean_academic_text and the text the extractor
\* returns hold no run of 3 or more newlines, and no line of them is empty or
\* has leading or trailing whitespace.
C6_NoEmptyLine ==
  \A t \in ProducedTexts :
    /\ NoTripleNewline(t)
    /\ \A k \in 1..Len(LinesOf(t)) :
         LinesOf(t)[k] # <<>> /\ Trimmed(LinesOf(t)[k])

\* C6 amended: the output of clean_academic_text and the text the extractor
\* returns hold no run of 3 or more newlines, no line of them has leading or
\* trailing whitespace, and their only empty lines are the single blank lines
\* between two consecutive non-empty lines.
C6_NormalizedText ==
  \A t \in ProducedTexts :
    /\ NoTripleNewline(t)
    /\ Len(LinesOf(t)) % 2 = IF t = <<>> THEN 0 ELSE 1
    /\ \A k \in 1..Len(LinesOf(t)) :
         /\ Trimmed(LinesOf(t)[k])
         /\ (LinesOf(t)[k] = <<>>) = (k % 2 = 0)

C6_Witness ==
  /\ pc = "extracted" /\ exc = "none" /\ page_num = 2
  /\ Len(LinesOf(extracted_text)) = 3

ExtractionFailed == exc \in {"open failed", "page failed"}

C8_ExtractionFailureTerminal ==
  ExtractionFailed =>
    /\ pc \in {"except", "extracted", "stopped"}
    /\ (pc # "except" => ErrExtract \in errors)
    /\ extracted_text = <<>>
    /\ token_count = -1 /\ encoded = <<>>
    /\ s_pc = "off" /\ windows = <<>>

C8_Witness ==
  /\ pc = "stopped" /\ exc = "page failed" /\ page_num >= 1
  /\ ErrExtract \in errors

\* C9: the "no text could be extracted" report is made exactly when
\* extraction succeeded and yielded no text; a request whose PDF failed to
\* open or parse never gets it.
C9_EmptyExtractionDistinct ==
  /\ ErrNoText \in errors => (~ExtractionFailed /\ extracted_text = <<>>)
  /\ (pc \notin {"off", "uploaded", "pages", "except", "extracted"}
        /\ ~ExtractionFailed /\ extracted_text = <<>>) => ErrNoText \in errors

====
